---------------------------- MODULE Spec2Model ----------------------------
(***************************************************************************)
(* Web-to-lead form validation: src/function.js (CSS-class variant) and    *)
(* src/unnamed/part_000 (inline-style variant).                            *)
(*                                                                         *)
(* Strings are sequences of one-character strings, so that trim(), the     *)
(* regular expressions and the URL parser are computed character by        *)
(* character.  Messages and class names are TLA+ strings.                  *)
(***************************************************************************)
EXTENDS Integers, Sequences, FiniteSets, TLC

VARIABLES
    form,        \* the document the script was loaded into (never changes)
    value,       \* input.value of every field
    classList,   \* function.js: input.classList, a subset of {"invalid","valid"}
    style,       \* part_000: input.style.borderColor
    errorText,   \* textContent of the .error-message element of every parent
    timers,      \* pending setTimeout timers: set of [id, remaining]
    timeout,     \* the debounce closure's `timeout` variable
    sinceInput,  \* ms since the last input event on the email field, capped
                 \* at the debounce wait
    runs,        \* runs of the debounced callback since the last input event
    validations, \* validateField calls made by that callback since then
    keystrokes,  \* input events on the email field in the current burst: since
                 \* the callback last ran (capped at MaxBurst)
    typed,       \* the value the email field held at its last input event
    focus,       \* document.activeElement as moved by the submit handler
    banner,      \* function.js: the #form-messages element
    button,      \* function.js: the .btn-submit element
    last,        \* what the handler that ran last did
    probe,       \* validator harness: the string handed to a validator
    verdict      \* validator harness: what the validator did with it

vars == <<form, value, classList, style, errorText, timers, timeout,
          sinceInput, runs, validations, keystrokes, typed, focus, banner, button, last,
          probe, verdict>>

-----------------------------------------------------------------------------
(* Characters and strings                                                  *)

Digits == {"0", "1", "2", "3", "4", "5", "6", "7", "8", "9"}
LowerSeq == <<"a","b","c","d","e","f","g","h","i","j","k","l","m",
              "n","o","p","q","r","s","t","u","v","w","x","y","z">>
UpperSeq == <<"A","B","C","D","E","F","G","H","I","J","K","L","M",
              "N","O","P","Q","R","S","T","U","V","W","X","Y","Z">>
Lower == {LowerSeq[i] : i \in 1..Len(LowerSeq)}
Upper == {UpperSeq[i] : i \in 1..Len(UpperSeq)}

\* \s of a JavaScript regular expression and the characters trim() removes
IsWs(c) == c \in {" ", "\t", "\n", "\r"}
\* \d
IsDigit(c) == c \in Digits
IsAlpha(c) == c \in Lower \cup Upper

ToLowerChar(c) ==
    IF c \in Upper
    THEN LowerSeq[CHOOSE i \in 1..Len(UpperSeq) : UpperSeq[i] = c]
    ELSE c
ToLower(s) == [i \in 1..Len(s) |-> ToLowerChar(s[i])]

\* String.prototype.trim
trim(s) ==
    LET keep == {i \in 1..Len(s) : ~IsWs(s[i])}
    IN  IF keep = {} THEN <<>>
        ELSE LET a == CHOOSE i \in keep : \A j \in keep : i <= j
                 b == CHOOSE i \in keep : \A j \in keep : j <= i
             IN  SubSeq(s, a, b)

\* String.prototype.startsWith
startsWith(s, prefix) ==
    /\ Len(prefix) <= Len(s)
    /\ SubSeq(s, 1, Len(prefix)) = prefix

\* s with every character satisfying Drop(_) removed (replace(/[...]/g, ''))
RECURSIVE RemoveAll(_, _)
RemoveAll(s, drop) ==
    IF s = <<>> THEN <<>>
    ELSE IF Head(s) \in drop THEN RemoveAll(Tail(s), drop)
         ELSE <<Head(s)>> \o RemoveAll(Tail(s), drop)

\* index of the first occurrence of a character of `stops` in s, or Len(s)+1
FirstOf(s, stops) ==
    LET hits == {i \in 1..Len(s) : s[i] \in stops}
    IN  IF hits = {} THEN Len(s) + 1
        ELSE CHOOSE i \in hits : \A j \in hits : i <= j

\* index of the last occurrence of a character of `stops` in s, or 0
LastOf(s, stops) ==
    LET hits == {i \in 1..Len(s) : s[i] \in stops}
    IN  IF hits = {} THEN 0
        ELSE CHOOSE i \in hits : \A j \in hits : j <= i

\* s split at every occurrence of c (String.prototype.split)
RECURSIVE Split(_, _)
Split(s, c) ==
    LET k == FirstOf(s, {c})
    IN  IF k > Len(s) THEN <<s>>
        ELSE <<SubSeq(s, 1, k - 1)>> \o Split(SubSeq(s, k + 1, Len(s)), c)

DigitVal(c) == CHOOSE n \in 0..9 : <<"0","1","2","3","4","5","6","7","8","9">>[n + 1] = c

\* s without its leading zeros
RECURSIVE StripZeros(_)
StripZeros(s) ==
    IF s # <<>> /\ Head(s) = "0" THEN StripZeros(Tail(s)) ELSE s

\* a <= b for strings of decimal digits of the same length
RECURSIVE DigitsLE(_, _)
DigitsLE(a, b) ==
    IF a = <<>> THEN TRUE
    ELSE IF DigitVal(Head(a)) # DigitVal(Head(b))
         THEN DigitVal(Head(a)) < DigitVal(Head(b))
         ELSE DigitsLE(Tail(a), Tail(b))

\* the number the digit string s denotes is at most the one lim denotes
\* (compared digit by digit: the numbers need not fit a machine integer)
NumLE(s, lim) ==
    LET a == StripZeros(s)
    IN  \/ Len(a) < Len(lim)
        \/ Len(a) = Len(lim) /\ DigitsLE(a, lim)

AllDigits(s) == \A i \in 1..Len(s) : IsDigit(s[i])

-----------------------------------------------------------------------------
(* Validators (identical in function.js and part_000)                      *)

\* [^\s@]
EmailAtom(c) == ~IsWs(c) /\ c # "@"

AllAtoms(s, from, to) == \A k \in from..to : EmailAtom(s[k])

\* isValidEmail with the dot left out of the pattern: /^[^\s@]+@[^\s@]+$/
isValidEmailNoDot(email) ==
    \E i \in 1..Len(email) :
        /\ email[i] = "@"
        /\ 1 < i /\ AllAtoms(email, 1, i - 1)
        /\ i < Len(email) /\ AllAtoms(email, i + 1, Len(email))

\* isValidEmail: /^[^\s@]+@[^\s@]+\.[^\s@]+$/.test(email)
\* a match is a choice of the literal @ (at i) and the literal dot (at j)
isValidEmail(email) ==
    \E i \in 1..Len(email), j \in 1..Len(email) :
        /\ email[i] = "@"
        /\ email[j] = "."
        /\ 1 < i /\ AllAtoms(email, 1, i - 1)
        /\ i + 1 < j /\ AllAtoms(email, i + 1, j - 1)
        /\ j < Len(email) /\ AllAtoms(email, j + 1, Len(email))

\* the length cleanPhone must reach
PhoneMinLength == 10

\* [\d\s\-\(\)\+]
PhoneChar(c) == IsDigit(c) \/ IsWs(c) \/ c \in {"-", "(", ")", "+"}

\* phone.replace(/[\s\-\(\)]/g, '')
cleanPhone(phone) == RemoveAll(phone, {" ", "\t", "\n", "\r", "-", "(", ")"})

\* isValidPhone with the pattern test left out
isValidPhoneLengthOnly(phone) == Len(cleanPhone(phone)) >= PhoneMinLength

\* isValidPhone: phoneRegex.test(phone) && cleanPhone.length >= 10
isValidPhone(phone) ==
    /\ Len(phone) > 0
    /\ \A i \in 1..Len(phone) : PhoneChar(phone[i])
    /\ Len(cleanPhone(phone)) >= PhoneMinLength

-----------------------------------------------------------------------------
(* new URL(input), no base: the URL Standard's basic URL parser, for       *)
(* inputs over letters, digits, space and the punctuation @ . + - ( ) : /  *)
(* (no tab or newline, no ? # \ % [ ], no "file" scheme, no 0x or          *)
(* leading-zero numbers).  The result is [threw, protocol].                *)

SchemeChar(c) == IsAlpha(c) \/ IsDigit(c) \/ c \in {"+", "-", "."}
SpecialSchemes == { <<"h","t","t","p">>, <<"h","t","t","p","s">>,
                    <<"f","t","p">>, <<"w","s">>, <<"w","s","s">> }
\* the largest port, and the largest last part of an IPv4 address of n parts
MaxPort == <<"6","5","5","3","5">>
MaxIPv4Part == <<"2","5","5">>
MaxIPv4Last(n) ==
    CASE n = 1 -> <<"4","2","9","4","9","6","7","2","9","5">>
      [] n = 2 -> <<"1","6","7","7","7","2","1","5">>
      [] n = 3 -> <<"6","5","5","3","5">>
      [] OTHER -> <<"2","5","5">>

Failure == [threw |-> TRUE, protocol |-> <<>>]
Parsed(scheme) == [threw |-> FALSE, protocol |-> scheme \o <<":">>]

\* the labels of a host, one trailing empty label dropped
HostParts(parts) ==
    IF parts[Len(parts)] = <<>> /\ Len(parts) > 1
    THEN SubSeq(parts, 1, Len(parts) - 1) ELSE parts

\* the host ends in a number: its last label is made of digits
LastIsNumber(ps) == ps[Len(ps)] # <<>> /\ AllDigits(ps[Len(ps)])
EndsInANumber(host) == LastIsNumber(HostParts(Split(host, ".")))

\* the IPv4 parser accepts the labels
IPv4PartsOk(ps) ==
    /\ Len(ps) <= 4
    /\ \A i \in 1..Len(ps) : ps[i] # <<>> /\ AllDigits(ps[i])
    /\ \A i \in 1..(Len(ps) - 1) : NumLE(ps[i], MaxIPv4Part)
    /\ NumLE(ps[Len(ps)], MaxIPv4Last(Len(ps)))
IPv4Ok(host) == IPv4PartsOk(HostParts(Split(host, ".")))

\* host parser; opaque: the scheme is not special
HostOk(host, opaque) ==
    /\ \A i \in 1..Len(host) : ~IsWs(host[i])
    /\ opaque \/ host # <<>>
    /\ (~opaque /\ EndsInANumber(host)) => IPv4Ok(host)

\* host state and port state: hostport is the authority after its
\* credentials, colon the index of its first colon
HostPortOk(hostport, colon, opaque) ==
    /\ colon <= Len(hostport) =>
          /\ colon > 1
          /\ AllDigits(SubSeq(hostport, colon + 1, Len(hostport)))
          /\ NumLE(SubSeq(hostport, colon + 1, Len(hostport)), MaxPort)
    /\ HostOk(SubSeq(hostport, 1, colon - 1), opaque)

\* authority state: at is the index of the last @ of the authority
CredentialsOk(auth, at, opaque) ==
    /\ at > 0 => at < Len(auth)
    /\ HostPortOk(SubSeq(auth, at + 1, Len(auth)),
                  FirstOf(SubSeq(auth, at + 1, Len(auth)), {":"}), opaque)
AuthorityOk(auth, opaque) == CredentialsOk(auth, LastOf(auth, {"@"}), opaque)

\* the authority runs to the first slash of body
AuthorityState(scheme, body, opaque) ==
    IF AuthorityOk(SubSeq(body, 1, FirstOf(body, {"/"}) - 1), opaque)
    THEN Parsed(scheme) ELSE Failure

\* rest without its leading slashes
SkipSlashes(rest) ==
    SubSeq(rest, FirstOf(rest, {c \in {rest[i] : i \in 1..Len(rest)} : c # "/"}),
           Len(rest))

\* what follows "scheme:"
AfterScheme(scheme, rest) ==
    IF scheme \in SpecialSchemes
    THEN AuthorityState(scheme, SkipSlashes(rest), FALSE)
    ELSE IF startsWith(rest, <<"/", "/">>)
    THEN AuthorityState(scheme, SubSeq(rest, 3, Len(rest)), TRUE)
    ELSE Parsed(scheme)                        \* path or opaque path

\* scheme start state and scheme state: k is the index of the first
\* character of s that no scheme may hold
SchemeState(s, k) ==
    IF ~(Len(s) > 0 /\ IsAlpha(s[1]) /\ k <= Len(s) /\ s[k] = ":")
    THEN Failure                               \* no scheme and no base
    ELSE AfterScheme(ToLower(SubSeq(s, 1, k - 1)), SubSeq(s, k + 1, Len(s)))

\* s is the input without leading and trailing spaces
BasicURLParser(s) ==
    SchemeState(s, FirstOf(s, {c \in {s[i] : i \in 1..Len(s)} : ~SchemeChar(c)}))

newURL(input) == BasicURLParser(trim(input))

http == <<"h","t","t","p">>
httpColon == <<"h","t","t","p",":">>
httpsColon == <<"h","t","t","p","s",":">>
httpsPrefix == <<"h","t","t","p","s",":","/","/">>

\* isValidURL accepting whatever parses, whatever its protocol
isValidURLAnyProtocol(url, first) ==
    IF ~first.threw
    THEN [ret |-> TRUE, tried |-> <<url>>]
    ELSE IF ~startsWith(url, http)
         THEN [ret |-> ~newURL(httpsPrefix \o url).threw,
               tried |-> <<url, httpsPrefix \o url>>]
         ELSE [ret |-> FALSE, tried |-> <<url>>]

\* isValidURL after its first new URL(url) returned or threw: the result
\* and the arguments it passed to the URL constructor
isValidURLAfter(url, first) ==
    IF ~first.threw
    THEN [ret |-> first.protocol = httpColon \/ first.protocol = httpsColon,
          tried |-> <<url>>]
    ELSE IF ~startsWith(url, http)
         THEN [ret |-> ~newURL(httpsPrefix \o url).threw,
               tried |-> <<url, httpsPrefix \o url>>]
         ELSE [ret |-> FALSE, tried |-> <<url>>]

\* isValidURL, with the arguments it passed to the URL constructor
runIsValidURL(url) == isValidURLAfter(url, newURL(url))

isValidURL(url) == runIsValidURL(url).ret

-----------------------------------------------------------------------------
(* The document: the form's inputs, their attributes and their parents     *)

Fields == {"first_name", "last_name", "email", "company", "phone", "mobile", "url"}
\* document order of the inputs
FieldOrder == <<"first_name", "last_name", "email", "company", "phone", "mobile", "url">>
RequiredNames == {"first_name", "last_name", "email", "company"}
OptionalNames == {"phone", "mobile", "url"}

\* the text of the <label> of each .form-group, after replace('*', '').trim()
LabelText(f) ==
    CASE f = "first_name" -> "First Name"
      [] f = "last_name" -> "Last Name"
      [] f = "email" -> "Email"
      [] f = "company" -> "Company"
      [] f = "phone" -> "Phone"
      [] f = "mobile" -> "Mobile"
      [] OTHER -> "Website"

\* layout "grouped": every input sits in its own .form-group with a <label>
\*                   and an .error-message element;
\* layout "nospan":  the same without the .error-message elements;
\* layout "bare":    the inputs are children of the <form> itself: one
\*                   parent, no .form-group, no <label>, no .error-message.
Layouts == {"grouped", "nospan", "bare"}

ParentOf(f) == IF form.layout = "bare" THEN "form" ELSE f
Parents == Fields \cup {"form"}
HasGroup(f) == form.layout # "bare"

\* input.type
TypeOf(f) ==
    CASE f = "email" -> form.emailType
      [] f \in {"phone", "mobile"} -> "tel"
      [] f = "url" -> "url"
      [] OTHER -> "text"

\* the value sanitization of the input's type: email and url inputs strip
\* leading and trailing whitespace from what is typed
Sanitize(f, v) == IF TypeOf(f) \in {"email", "url"} THEN trim(v) ELSE v

\* the state of the DOM a handler works on; marked logs the inputs the
\* handler has called setFieldError / markInvalid on so far
DOM == [classList |-> classList, style |-> style, errorText |-> errorText,
        marked |-> {}]

NoStyle == [borderColor |-> "", backgroundColor |-> ""]
\* errorText[p] = <<>>: the parent p holds no .error-message element;
\* errorText[p] = <<t>>: it holds one, with textContent t
HasSpan(d, f) == d.errorText[ParentOf(f)] # <<>>

-----------------------------------------------------------------------------
(* function.js                                                             *)

\* setFieldError
setFieldError(d, f, message) ==
    [d EXCEPT !.classList[f] = (@ \cup {"invalid"}) \ {"valid"},
              !.errorText[ParentOf(f)] = IF @ # <<>> THEN <<message>> ELSE @,
              !.marked = @ \cup {f}]

\* clearFieldError
clearFieldError(d, f) ==
    [d EXCEPT !.classList[f] = IF trim(value[f]) # <<>>
                               THEN (@ \ {"invalid"}) \cup {"valid"}
                               ELSE (@ \ {"invalid"}) \ {"valid"},
              !.errorText[ParentOf(f)] = IF @ # <<>> THEN <<"">> ELSE @]

\* getLabelText
getLabelText(f) == IF HasGroup(f) THEN LabelText(f) ELSE "This field"

\* the requiredFields array of validateForm
requiredFields ==
    << [name |-> "first_name", label |-> "First Name", type |-> "text"],
       [name |-> "last_name", label |-> "Last Name", type |-> "text"],
       [name |-> "email", label |-> "Email", type |-> "email"],
       [name |-> "company", label |-> "Company", type |-> "text"] >>
phoneFields == <<"phone", "mobile">>

\* RequiredStep testing input.value without trim()
RequiredStepNoTrim(r, field) ==
    LET v == value[field.name]
    IN  IF field.name \notin form.present THEN r
        ELSE IF v = <<>>
        THEN [d |-> setFieldError(r.d, field.name, field.label \o " is required"),
              isValid |-> FALSE]
        ELSE IF field.type = "email" /\ ~isValidEmail(v)
        THEN [d |-> setFieldError(r.d, field.name, "Please enter a valid email address"),
              isValid |-> FALSE]
        ELSE [d |-> clearFieldError(r.d, field.name), isValid |-> r.isValid]

\* one iteration of requiredFields.forEach; r = [d, isValid]
RequiredStep(r, field) ==
    LET v == trim(value[field.name])
    IN  IF field.name \notin form.present THEN r
        ELSE IF v = <<>>
        THEN [d |-> setFieldError(r.d, field.name, field.label \o " is required"),
              isValid |-> FALSE]
        ELSE IF field.type = "email" /\ ~isValidEmail(v)
        THEN [d |-> setFieldError(r.d, field.name, "Please enter a valid email address"),
              isValid |-> FALSE]
        ELSE [d |-> clearFieldError(r.d, field.name), isValid |-> r.isValid]

\* one iteration of phoneFields.forEach
PhoneStep(r, fieldName) ==
    LET v == trim(value[fieldName])
    IN  IF fieldName \notin form.present THEN r
        ELSE IF v # <<>> /\ ~isValidPhone(v)
        THEN [d |-> setFieldError(r.d, fieldName, "Please enter a valid phone number"),
              isValid |-> FALSE]
        ELSE IF v # <<>> \/ "invalid" \in r.d.classList[fieldName]
        THEN [d |-> clearFieldError(r.d, fieldName), isValid |-> r.isValid]
        ELSE r

\* the URL block of validateForm
UrlStep(r) ==
    LET v == trim(value["url"])
    IN  IF "url" \notin form.present THEN r
        ELSE IF v # <<>> /\ ~isValidURL(v)
        THEN [d |-> setFieldError(r.d, "url", "Please enter a valid website URL"),
              isValid |-> FALSE]
        ELSE IF v # <<>> \/ "invalid" \in r.d.classList["url"]
        THEN [d |-> clearFieldError(r.d, "url"), isValid |-> r.isValid]
        ELSE r

RECURSIVE RequiredLoop(_, _)
RequiredLoop(r, i) ==
    IF i > Len(requiredFields) THEN r
    ELSE RequiredLoop(RequiredStep(r, requiredFields[i]), i + 1)

RECURSIVE PhoneLoop(_, _)
PhoneLoop(r, i) ==
    IF i > Len(phoneFields) THEN r
    ELSE PhoneLoop(PhoneStep(r, phoneFields[i]), i + 1)

\* validateForm: [d, isValid]
validateForm(d) ==
    UrlStep(PhoneLoop(RequiredLoop([d |-> d, isValid |-> TRUE], 1), 1))

\* validateField: [d, ret]
validateField(d, f) ==
    LET v == trim(value[f])
        isRequired == f \in form.required
    IN  IF isRequired /\ v = <<>>
        THEN [d |-> setFieldError(d, f, getLabelText(f) \o " is required"), ret |-> FALSE]
        ELSE IF v # <<>> /\ TypeOf(f) = "email" /\ ~isValidEmail(v)
        THEN [d |-> setFieldError(d, f, "Please enter a valid email address"), ret |-> FALSE]
        ELSE IF v # <<>> /\ TypeOf(f) = "tel" /\ ~isValidPhone(v)
        THEN [d |-> setFieldError(d, f, "Please enter a valid phone number"), ret |-> FALSE]
        ELSE IF v # <<>> /\ f = "url" /\ ~isValidURL(v)
        THEN [d |-> setFieldError(d, f, "Please enter a valid website URL"), ret |-> FALSE]
        ELSE [d |-> clearFieldError(d, f), ret |-> TRUE]

\* attachBlurValidation: the inputs that get the blur listener
\* (input[required], input[type="email"], input[type="tel"])
BlurFields == {f \in form.present : f \in form.required \/ TypeOf(f) \in {"email", "tel"}}

\* the blur listener validating the field whatever it holds
blurListenerAlways(d, f) == validateField(d, f).d

\* the blur listener of field f
blurListener(d, f) ==
    IF Len(trim(value[f])) > 0 \/ f \in form.required
    THEN validateField(d, f).d
    ELSE d

\* querySelector returning the last match in document order
LastInvalid(d) ==
    LET hits == {i \in 1..Len(FieldOrder) :
                    FieldOrder[i] \in form.present /\ "invalid" \in d.classList[FieldOrder[i]]}
    IN  IF hits = {} THEN ""
        ELSE FieldOrder[CHOOSE i \in hits : \A j \in hits : i >= j]

\* form.querySelector('.invalid'): the first such input in document order
FirstInvalid(d) ==
    LET hits == {i \in 1..Len(FieldOrder) :
                    FieldOrder[i] \in form.present /\ "invalid" \in d.classList[FieldOrder[i]]}
    IN  IF hits = {} THEN ""
        ELSE FieldOrder[CHOOSE i \in hits : \A j \in hits : i <= j]

\* hideMessage / showMessage on the #form-messages element (<<>>: no element)
hideMessage(b) == [text |-> "", className |-> "form-messages", display |-> "none"]
showMessage(b, type, message) ==
    [text |-> message, className |-> "form-messages " \o type, display |-> "block"]

\* setLoadingState(button, true) / (button, false)
setLoadingState(b, isLoading) ==
    IF isLoading
    THEN [b EXCEPT !.loading = TRUE, !.disabled = TRUE,
                   !.btnText = "none", !.btnLoader = "inline-flex"]
    ELSE [b EXCEPT !.loading = FALSE, !.disabled = FALSE,
                   !.btnText = "inline-block", !.btnLoader = "none"]

-----------------------------------------------------------------------------
(* part_000                                                                *)

InvalidStyle == [borderColor |-> "#dc3545", backgroundColor |-> "#fff5f5"]
ValidStyle == [borderColor |-> "#28a745", backgroundColor |-> "#ffffff"]

\* markInvalid: the .error-message element is created when the parent has none
markInvalid(d, f, message) ==
    [d EXCEPT !.style[f] = InvalidStyle,
              !.errorText[ParentOf(f)] = <<message>>,
              !.marked = @ \cup {f}]

\* markValid leaving the text of the error message in place
markValidKeepMessage(d, f) ==
    [d EXCEPT !.style[f] = ValidStyle]

\* markValid
markValid(d, f) ==
    [d EXCEPT !.style[f] = ValidStyle,
              !.errorText[ParentOf(f)] = IF @ # <<>> THEN <<"">> ELSE @]

\* getFieldLabel
getFieldLabel(f) == IF HasGroup(f) THEN LabelText(f) ELSE "This field"

\* the requiredFields array of part_000's validateForm
requiredFieldsInline ==
    << [name |-> "first_name", label |-> "First Name"],
       [name |-> "last_name", label |-> "Last Name"],
       [name |-> "email", label |-> "Email"],
       [name |-> "company", label |-> "Company"] >>

\* RequiredStepInline marking the empty field without clearing isValid
RequiredStepInlineStillValid(r, field) ==
    IF field.name \in form.present /\ trim(value[field.name]) = <<>>
    THEN [d |-> markInvalid(r.d, field.name, field.label \o " is required"),
          isValid |-> r.isValid]
    ELSE IF field.name \in form.present
    THEN [d |-> markValid(r.d, field.name), isValid |-> r.isValid]
    ELSE r

\* one iteration of requiredFields.forEach
RequiredStepInline(r, field) ==
    IF field.name \in form.present /\ trim(value[field.name]) = <<>>
    THEN [d |-> markInvalid(r.d, field.name, field.label \o " is required"),
          isValid |-> FALSE]
    ELSE IF field.name \in form.present
    THEN [d |-> markValid(r.d, field.name), isValid |-> r.isValid]
    ELSE r

RECURSIVE RequiredLoopInline(_, _)
RequiredLoopInline(r, i) ==
    IF i > Len(requiredFieldsInline) THEN r
    ELSE RequiredLoopInline(RequiredStepInline(r, requiredFieldsInline[i]), i + 1)

\* the email, phone, mobile and url blocks: the validator gets input.value
\* itself, not the trimmed value
EmailStepInline(r) ==
    IF "email" \in form.present /\ trim(value["email"]) # <<>>
       /\ ~isValidEmail(value["email"])
    THEN [d |-> markInvalid(r.d, "email", "Please enter a valid email address"),
          isValid |-> FALSE]
    ELSE r

\* PhoneStepInline checking the format of an empty value too
PhoneStepInlineNoGuard(r) ==
    IF "phone" \in form.present /\ ~isValidPhone(value["phone"])
    THEN [d |-> markInvalid(r.d, "phone", "Please enter a valid phone number"),
          isValid |-> FALSE]
    ELSE r

PhoneStepInline(r) ==
    IF "phone" \in form.present /\ trim(value["phone"]) # <<>>
       /\ ~isValidPhone(value["phone"])
    THEN [d |-> markInvalid(r.d, "phone", "Please enter a valid phone number"),
          isValid |-> FALSE]
    ELSE r

MobileStepInline(r) ==
    IF "mobile" \in form.present /\ trim(value["mobile"]) # <<>>
       /\ ~isValidPhone(value["mobile"])
    THEN [d |-> markInvalid(r.d, "mobile", "Please enter a valid mobile number"),
          isValid |-> FALSE]
    ELSE r

UrlStepInline(r) ==
    IF "url" \in form.present /\ trim(value["url"]) # <<>>
       /\ ~isValidURL(value["url"])
    THEN [d |-> markInvalid(r.d, "url", "Please enter a valid website URL"),
          isValid |-> FALSE]
    ELSE r

\* part_000's validateForm: [d, isValid]
validateFormInline(d) ==
    UrlStepInline(MobileStepInline(PhoneStepInline(EmailStepInline(
        RequiredLoopInline([d |-> d, isValid |-> TRUE], 1)))))

\* attachFieldValidation: the blur listener of the input[required] inputs
requiredBlurInline(d, f) ==
    IF trim(value[f]) = <<>>
    THEN markInvalid(d, f, getFieldLabel(f) \o " is required")
    ELSE markValid(d, f)

\* attachFieldValidation: the blur listeners added by name
FormatMessageInline(f) ==
    CASE f = "email" -> "Please enter a valid email address"
      [] f = "phone" -> "Please enter a valid phone number"
      [] f = "mobile" -> "Please enter a valid mobile number"
      [] OTHER -> "Please enter a valid website URL"

FormatOkInline(f) ==
    CASE f = "email" -> isValidEmail(value[f])
      [] f \in {"phone", "mobile"} -> isValidPhone(value[f])
      [] OTHER -> isValidURL(value[f])

formatBlurInline(d, f) ==
    IF trim(value[f]) # <<>> /\ ~FormatOkInline(f)
    THEN markInvalid(d, f, FormatMessageInline(f))
    ELSE IF trim(value[f]) # <<>>
    THEN markValid(d, f)
    ELSE d

\* the blur listeners of input f, in the order they were added
namedBlurInline(d, f) ==
    IF f \in {"email", "phone", "mobile", "url"} THEN formatBlurInline(d, f) ELSE d

\* the blur listeners of input f run in the reverse order
blurListenersReversed(d, f) ==
    LET named == namedBlurInline(d, f)
    IN  IF f \in form.required THEN requiredBlurInline(named, f) ELSE named

blurListenersInline(d, f) ==
    namedBlurInline(IF f \in form.required THEN requiredBlurInline(d, f) ELSE d, f)

BlurFieldsInline ==
    {f \in form.present : f \in form.required \/ f \in {"email", "phone", "mobile", "url"}}

\* scrollToFirstError: the first input whose style attribute holds the red
\* border colour
FirstInvalidInline(d) ==
    LET hits == {i \in 1..Len(FieldOrder) :
                    /\ FieldOrder[i] \in form.present
                    /\ d.style[FieldOrder[i]].borderColor = InvalidStyle.borderColor}
    IN  IF hits = {} THEN ""
        ELSE FieldOrder[CHOOSE i \in hits : \A j \in hits : i <= j]

-----------------------------------------------------------------------------
(* The documents and the values typed into them                            *)

Al == <<"A", "l">>
Blank == <<" ">>
GoodEmail == <<"a", "@", "b", ".", "c", "o">>
BadEmail == <<"a", "@", "b">>
PaddedEmail == <<" ">> \o GoodEmail
GoodPhone == <<"1","2","3","4","5","6","7","8","9","0">>
ShortPhone == <<"1","2","3","4","5">>
GoodUrl == <<"e","x","a","m","p","l","e",".","c","o","m">>
BadUrl == <<"n","o","t"," ","a"," ","u","r","l">>

\* what the user may type into each input
Candidates(f) ==
    CASE f = "first_name" -> {<<>>, Blank, Al}
      [] f \in {"last_name", "company"} -> {<<>>, Al}
      [] f = "email" -> {<<>>, GoodEmail, BadEmail, PaddedEmail}
      [] f \in {"phone", "mobile"} -> {<<>>, GoodPhone, ShortPhone}
      [] OTHER -> {<<>>, GoodUrl, BadUrl}

Variants == {"function.js", "part_000"}

\* a document: which script it loads, which inputs it holds, which of them
\* carry the required attribute, how they are laid out, the type of the
\* email input, and whether #form-messages and .btn-submit exist
Document(variant, present, required, layout, emailType, extras) ==
    [variant |-> variant, present |-> present, required |-> required,
     layout |-> layout, emailType |-> emailType,
     messages |-> extras, submitButton |-> extras]

\* the documents the scripts are checked in
Forms ==
    { Document("function.js", RequiredNames, RequiredNames, "grouped", "email", FALSE),
      Document("function.js", {"email", "phone", "url"}, {"email"}, "grouped", "email", FALSE),
      Document("function.js", {"first_name", "email"}, {"first_name", "email"}, "nospan", "email", FALSE),
      Document("function.js", {"company", "email", "mobile"}, {"company"}, "bare", "text", TRUE),
      Document("part_000", RequiredNames \cup {"phone"}, RequiredNames, "grouped", "email", FALSE),
      Document("part_000", {"first_name", "email", "phone"}, {"first_name", "email"}, "bare", "email", FALSE),
      Document("part_000", {"company", "email", "mobile", "url"}, {"company"}, "nospan", "text", FALSE) }

-----------------------------------------------------------------------------
(* The state machine                                                       *)

\* the wait of the debounced email listener
EmailDebounceWait == 500
\* the step of the clock, in ms
TickMs == 250
\* timers the model lets be pending at once
MaxTimers == 2
\* the input events of a burst that are counted
MaxBurst == 2

NoVerdict == [fn |-> "", ret |-> FALSE, tried |-> <<>>]
NoSubmit == [submit |-> "none", marked |-> {}]

InitDocument ==
    /\ value = [f \in Fields |-> <<>>]
    /\ classList = [f \in Fields |-> {}]
    /\ style = [f \in Fields |-> NoStyle]
    /\ errorText = [p \in Parents |->
                      IF form.layout = "grouped" /\ p \in form.present
                      THEN <<"">> ELSE <<>>]
    /\ timers = {}
    /\ timeout = 0
    /\ sinceInput = EmailDebounceWait
    /\ runs = 0
    /\ validations = 0
    /\ keystrokes = 0
    /\ typed = <<>>
    /\ focus = ""
    /\ banner = IF form.variant = "function.js" /\ form.messages
                THEN <<[text |-> "", className |-> "form-messages", display |-> ""]>>
                ELSE <<>>
    /\ button = IF form.variant = "function.js" /\ form.submitButton
                THEN <<[loading |-> FALSE, disabled |-> FALSE,
                        btnText |-> "", btnLoader |-> ""]>>
                ELSE <<>>
    /\ last = NoSubmit

Init ==
    /\ form \in Forms
    /\ InitDocument
    /\ probe = <<>>
    /\ verdict = NoVerdict

Min(a, b) == IF a <= b THEN a ELSE b

\* the user changes the value of input f (no input listener is attached)
Input(f, v) ==
    /\ f \in form.present
    /\ ~(form.variant = "function.js" /\ f = "email")
    /\ Sanitize(f, v) # value[f]
    /\ value' = [value EXCEPT ![f] = Sanitize(f, v)]
    /\ focus' = ""
    /\ last' = NoSubmit
    /\ UNCHANGED <<form, classList, style, errorText, timers, timeout,
                   sinceInput, runs, validations, keystrokes, typed, banner, button, probe, verdict>>

\* debounce without clearTimeout(timeout)
debounceCallNoClear(ts, handle, wait) ==
    LET id == CHOOSE n \in 1..(MaxTimers + 1) :
                  /\ \A t \in ts : t.id # n
                  /\ \A m \in 1..(n - 1) : \E t \in ts : t.id = m
    IN  [timers |-> ts \cup {[id |-> id, remaining |-> wait]},
         timeout |-> id]

\* debounce: clearTimeout(timeout) and setTimeout(later, wait); the result
\* is [timers, timeout]
debounceCall(ts, handle, wait) ==
    LET cleared == {t \in ts : t.id # handle}
        id == CHOOSE n \in 1..(MaxTimers + 1) :
                  /\ \A t \in cleared : t.id # n
                  /\ \A m \in 1..(n - 1) : \E t \in cleared : t.id = m
    IN  [timers |-> cleared \cup {[id |-> id, remaining |-> wait]},
         timeout |-> id]

\* function.js: the user changes the value of the email input; its input
\* listener is the debounced function
InputEmail(v) ==
    /\ form.variant = "function.js"
    /\ "email" \in form.present
    /\ Sanitize("email", v) # value["email"]
    /\ Cardinality(timers) < MaxTimers
    /\ value' = [value EXCEPT !["email"] = Sanitize("email", v)]
    /\ \E c \in {debounceCall(timers, timeout, EmailDebounceWait)} :
           timers' = c.timers /\ timeout' = c.timeout
    /\ sinceInput' = 0
    /\ runs' = 0
    /\ validations' = 0
    /\ keystrokes' = IF runs > 0 THEN 1 ELSE Min(MaxBurst, keystrokes + 1)
    /\ typed' = Sanitize("email", v)
    /\ focus' = ""
    /\ last' = NoSubmit
    /\ UNCHANGED <<form, classList, style, errorText, banner, button, probe, verdict>>

\* the values a script assigns to the email input
Assigned == {<<>>, BadEmail}

\* function.js: the value of the email input is changed without an input
\* event (a script's assignment, form.reset()) while the timer is pending
SetEmail(v) ==
    /\ form.variant = "function.js"
    /\ "email" \in form.present
    /\ timers # {}
    /\ Sanitize("email", v) # value["email"]
    /\ value' = [value EXCEPT !["email"] = Sanitize("email", v)]
    /\ focus' = ""
    /\ last' = NoSubmit
    /\ UNCHANGED <<form, classList, style, errorText, timers, timeout, sinceInput,
                   runs, validations, keystrokes, typed, banner, button, probe, verdict>>

\* the callback validating whatever the field holds, empty or not
emailInputCallbackAlways(d) ==
    [d |-> validateField(d, "email").d, validated |-> TRUE]

\* the callback handed to debounce: [d, validated]
emailInputCallback(d) ==
    IF Len(value["email"]) > 0
    THEN [d |-> validateField(d, "email").d, validated |-> TRUE]
    ELSE [d |-> d, validated |-> FALSE]

\* a timer expires: later() sets timeout to null and runs the callback
TimerFire ==
    \E t \in timers :
        /\ t.remaining = 0
        /\ timers' = timers \ {t}
        /\ timeout' = 0
        /\ \E c \in {emailInputCallback(DOM)} :
               /\ classList' = c.d.classList
               /\ errorText' = c.d.errorText
               /\ validations' = validations + (IF c.validated THEN 1 ELSE 0)
        /\ runs' = runs + 1
        /\ focus' = ""
        /\ last' = NoSubmit
        /\ UNCHANGED <<form, value, style, sinceInput, keystrokes, typed, banner, button,
                       probe, verdict>>

\* time passes, never beyond the expiry of a pending timer
Tick ==
    /\ \A t \in timers : t.remaining > 0
    /\ timers # {} \/ sinceInput < EmailDebounceWait
    /\ \E step \in {TickMs, 2 * TickMs} :
        LET d == IF timers = {} THEN step
                 ELSE Min(step, CHOOSE m \in {t.remaining : t \in timers} :
                                    \A t \in timers : m <= t.remaining)
        IN  /\ timers' = {[t EXCEPT !.remaining = @ - d] : t \in timers}
            /\ sinceInput' = Min(EmailDebounceWait, sinceInput + d)
    /\ UNCHANGED <<form, value, classList, style, errorText, timeout, runs,
                   validations, keystrokes, typed, focus, banner, button, last, probe, verdict>>

\* function.js: input f loses focus
Blur(f) ==
    /\ form.variant = "function.js"
    /\ f \in BlurFields
    /\ \E d \in {blurListener(DOM, f)} :
           classList' = d.classList /\ errorText' = d.errorText
    /\ focus' = ""
    /\ last' = NoSubmit
    /\ UNCHANGED <<form, value, style, timers, timeout, sinceInput, runs,
                   validations, keystrokes, typed, banner, button, probe, verdict>>

\* part_000: input f loses focus
BlurInline(f) ==
    /\ form.variant = "part_000"
    /\ f \in BlurFieldsInline
    /\ \E d \in {blurListenersInline(DOM, f)} :
           style' = d.style /\ errorText' = d.errorText
    /\ focus' = ""
    /\ last' = NoSubmit
    /\ UNCHANGED <<form, value, classList, timers, timeout, sinceInput, runs,
                   validations, keystrokes, typed, banner, button, probe, verdict>>

\* afterValidateForm resetting the button when the submit is blocked
afterValidateFormReset(r, hidden, btn) ==
    IF ~r.isValid
    THEN [d |-> r.d,
          banner |-> IF hidden # <<>>
                     THEN <<showMessage(hidden[1], "error",
                              "Please correct the errors below and try again.")>>
                     ELSE hidden,
          button |-> IF btn # <<>> THEN <<setLoadingState(btn[1], FALSE)>> ELSE btn,
          focus |-> FirstInvalid(r.d),
          prevented |-> TRUE]
    ELSE [d |-> r.d,
          banner |-> hidden,
          button |-> IF btn # <<>> THEN <<setLoadingState(btn[1], TRUE)>> ELSE btn,
          focus |-> "",
          prevented |-> FALSE]

\* handleFormSubmit after validateForm returned r; hidden is #form-messages
\* after hideMessage
afterValidateForm(r, hidden, btn) ==
    IF ~r.isValid
    THEN [d |-> r.d,
          banner |-> IF hidden # <<>>
                     THEN <<showMessage(hidden[1], "error",
                              "Please correct the errors below and try again.")>>
                     ELSE hidden,
          button |-> btn,
          focus |-> FirstInvalid(r.d),
          prevented |-> TRUE]
    ELSE [d |-> r.d,
          banner |-> hidden,
          button |-> IF btn # <<>> THEN <<setLoadingState(btn[1], TRUE)>> ELSE btn,
          focus |-> "",
          prevented |-> FALSE]

\* handleFormSubmit without the hideMessage call
handleFormSubmitNoHide(d, msgs, btn) ==
    afterValidateForm(validateForm(d), msgs, btn)

\* handleFormSubmit: [d, banner, button, focus, prevented]
handleFormSubmit(d, msgs, btn) ==
    afterValidateForm(validateForm(d),
                      IF msgs # <<>> THEN <<hideMessage(msgs[1])>> ELSE msgs,
                      btn)

\* function.js: a submit event on the form
Submit ==
    /\ form.variant = "function.js"
    /\ \E h \in {handleFormSubmit(DOM, banner, button)} :
           /\ classList' = h.d.classList
           /\ errorText' = h.d.errorText
           /\ banner' = h.banner
           /\ button' = h.button
           /\ focus' = h.focus
           /\ last' = [submit |-> IF h.prevented THEN "blocked" ELSE "allowed",
                       marked |-> h.d.marked]
    /\ UNCHANGED <<form, value, style, timers, timeout, sinceInput, runs,
                   validations, keystrokes, typed, probe, verdict>>

\* part_000's submit listener after validateForm returned r
afterValidateFormInline(r) ==
    IF ~r.isValid
    THEN [d |-> r.d, focus |-> FirstInvalidInline(r.d), prevented |-> TRUE]
    ELSE [d |-> r.d, focus |-> "", prevented |-> FALSE]

\* part_000's submit listener: [d, focus, prevented]
submitListenerInline(d) == afterValidateFormInline(validateFormInline(d))

\* part_000: a submit event on the form
SubmitInline ==
    /\ form.variant = "part_000"
    /\ \E h \in {submitListenerInline(DOM)} :
           /\ style' = h.d.style
           /\ errorText' = h.d.errorText
           /\ focus' = h.focus
           /\ last' = [submit |-> IF h.prevented THEN "blocked" ELSE "allowed",
                       marked |-> h.d.marked]
    /\ UNCHANGED <<form, value, classList, timers, timeout, sinceInput, runs,
                   validations, keystrokes, typed, banner, button, probe, verdict>>

Next ==
    \/ \E f \in Fields : \E v \in Candidates(f) : Input(f, v)
    \/ \E v \in Candidates("email") : InputEmail(v)
    \/ \E v \in Assigned : SetEmail(v)
    \/ TimerFire
    \/ Tick
    \/ \E f \in Fields : Blur(f)
    \/ \E f \in Fields : BlurInline(f)
    \/ Submit
    \/ SubmitInline

Spec == Init /\ [][Next]_vars

-----------------------------------------------------------------------------
(* The validators on their own: a string is handed to one of them          *)

\* strings are built from at most MaxTokens of these pieces
MaxTokens == 3
Tokens ==
    { <<"a">>, <<"1">>, <<" ">>, <<"@">>, <<".">>, <<"+">>, <<"-">>, <<":">>, <<"/">>,
      <<"1","2","3","4","5">>, <<"h","t","t","p">>, <<"(", "1", ")">> }

RECURSIVE TokenStrings(_)
TokenStrings(n) ==
    IF n = 0 THEN {<<>>}
    ELSE LET shorter == TokenStrings(n - 1)
         IN  shorter \cup {s \o t : s \in shorter, t \in Tokens}

\* the examples of the specification's section 8 and of the claims
ExPhoneGood ==
    <<"+","1"," ","(","5","5","5",")"," ","1","2","3","-","4","5","6","7">>
ExPhoneLetters == <<"a","b","c","-","d","e","f","g">>
ExPhonePlus == <<"+","1","2","3","4","5","6","7","8","9">>
ExEmailTwoAts == <<"a","@","@","b",".","c","o","m">>
ExUrlHttps == httpsPrefix \o GoodUrl
ExUrlFtp == <<"f","t","p",":","/","/">> \o GoodUrl
ExUrlLocalhost == <<"l","o","c","a","l","h","o","s","t",":","8","0","8","0">>
ExUrlHttpbin == <<"h","t","t","p","b","i","n",".","o","r","g">>

Examples ==
    { GoodEmail, BadEmail, ExEmailTwoAts, PaddedEmail,
      ExPhoneGood, ShortPhone, ExPhoneLetters, ExPhonePlus, GoodPhone,
      GoodUrl, BadUrl, ExUrlHttps, ExUrlFtp, ExUrlLocalhost, ExUrlHttpbin }

Probes == TokenStrings(MaxTokens) \cup Examples

InitValidators ==
    /\ form = Document("function.js", RequiredNames, RequiredNames, "grouped", "email", TRUE)
    /\ InitDocument
    /\ probe \in Probes
    /\ verdict = NoVerdict

CheckEmail ==
    /\ verdict = NoVerdict
    /\ verdict' = [fn |-> "isValidEmail", ret |-> isValidEmail(probe), tried |-> <<>>]
    /\ UNCHANGED <<form, value, classList, style, errorText, timers, timeout,
                   sinceInput, runs, validations, keystrokes, typed, focus, banner, button, last, probe>>

CheckPhone ==
    /\ verdict = NoVerdict
    /\ verdict' = [fn |-> "isValidPhone", ret |-> isValidPhone(probe), tried |-> <<>>]
    /\ UNCHANGED <<form, value, classList, style, errorText, timers, timeout,
                   sinceInput, runs, validations, keystrokes, typed, focus, banner, button, last, probe>>

CheckURL ==
    /\ verdict = NoVerdict
    /\ \E r \in {runIsValidURL(probe)} :
           verdict' = [fn |-> "isValidURL", ret |-> r.ret, tried |-> r.tried]
    /\ UNCHANGED <<form, value, classList, style, errorText, timers, timeout,
                   sinceInput, runs, validations, keystrokes, typed, focus, banner, button, last, probe>>

NextValidators == CheckEmail \/ CheckPhone \/ CheckURL

SpecValidators == InitValidators /\ [][NextValidators]_vars

-----------------------------------------------------------------------------
(* What the claims speak of                                                *)

\* the handler that ran last was the submit handler
AfterSubmit == last.submit # "none"
\* ... and it called preventDefault
Prevented == last.submit = "blocked"

\* the input is shown as invalid: class `invalid` (function.js), red border
\* (part_000)
InvalidState(f) ==
    IF form.variant = "function.js"
    THEN "invalid" \in classList[f]
    ELSE style[f].borderColor = "#dc3545"

\* the text of the .error-message element of the input's parent
MessageOf(f) == errorText[ParentOf(f)]

\* the input has a parent of its own that holds an .error-message element
\* by the time a message is written (part_000 creates a missing one)
OwnErrorMessage(f) ==
    \/ form.layout = "grouped"
    \/ form.layout = "nospan" /\ form.variant = "part_000"

\* the values of Candidates, as the specification sorts them
IsBlank(v) == v \in {<<>>, Blank}
WellFormed(f) ==
    CASE f = "email" -> value[f] = GoodEmail
      [] f \in {"phone", "mobile"} -> value[f] = GoodPhone
      [] f = "url" -> value[f] = GoodUrl
      [] OTHER -> TRUE
\* the value fails the format check of its input as the variant applies it:
\* part_000 hands the validator the value with its surrounding whitespace
Malformed(f) ==
    CASE f = "email" -> \/ value[f] = BadEmail
                        \/ value[f] = PaddedEmail /\ form.variant = "part_000"
      [] f \in {"phone", "mobile"} -> value[f] = ShortPhone
      [] f = "url" -> value[f] = BadUrl
      [] OTHER -> FALSE

RequiredMessage(f) ==
    CASE f = "first_name" -> "First Name is required"
      [] f = "last_name" -> "Last Name is required"
      [] f = "email" -> "Email is required"
      [] OTHER -> "Company is required"

EmptyRequired == {f \in form.present \cap RequiredNames : IsBlank(value[f])}

-----------------------------------------------------------------------------
(* C1: as stated. After every submit event, every present required field   *)
(* whose trimmed value is empty has made the handler call preventDefault,   *)
(* is in the invalid state and shows '<Label> is required'.  Fails where    *)
(* the input has no .error-message element of its own.                      *)
C1_AsStated ==
    AfterSubmit =>
        \A f \in EmptyRequired :
            /\ Prevented
            /\ InvalidState(f)
            /\ MessageOf(f) = <<RequiredMessage(f)>>

(* C1, amended: after every submit event, every present required field     *)
(* whose trimmed value is empty has made the handler call preventDefault    *)
(* and is in the invalid state; it shows '<Label> is required' when the     *)
(* input has a parent of its own holding an .error-message element.         *)
C1_EmptyRequiredBlocks ==
    AfterSubmit =>
        \A f \in EmptyRequired :
            /\ Prevented
            /\ InvalidState(f)
            /\ OwnErrorMessage(f) => MessageOf(f) = <<RequiredMessage(f)>>

\* a submit blocked by a required field holding only whitespace, which shows
\* its message, while the email field holds a well-formed address
C1_Witness ==
    /\ Prevented
    /\ value["first_name"] = Blank
    /\ InvalidState("first_name")
    /\ MessageOf("first_name") = <<"First Name is required">>
    /\ value["email"] = GoodEmail

-----------------------------------------------------------------------------
\* the premise of C2: all four required fields filled, the optional ones
\* empty or valid in format
C2_Filled ==
    /\ RequiredNames \subseteq form.present
    /\ \A f \in RequiredNames : ~IsBlank(value[f])
    /\ \A f \in form.present \cap OptionalNames : value[f] = <<>> \/ WellFormed(f)

-----------------------------------------------------------------------------
(* C3: after every submit event, preventDefault was called iff the          *)
(* validation pass marked a field invalid, and the fields it marked are     *)
(* the present required fields that are empty and the fields whose          *)
(* non-empty value fails its format check; markings left by earlier events  *)
(* play no part.                                                            *)
C3_PreventedIffMarked ==
    AfterSubmit =>
        /\ Prevented <=> last.marked # {}
        /\ last.marked = EmptyRequired \cup {f \in form.present : Malformed(f)}

\* an allowed submit while an optional field emptied since still carries
\* the invalid marking of an earlier blur
C3_Witness ==
    /\ last.submit = "allowed"
    /\ \E f \in form.present \cap OptionalNames : value[f] = <<>> /\ InvalidState(f)

-----------------------------------------------------------------------------
\* what C4 says of the timer of the debounced email listener: at most one is
\* pending, it is the one the closure holds, and it expires one wait after
\* the last input event
C4_OneTimer ==
    /\ Cardinality(timers) <= 1
    /\ \A t \in timers : t.id = timeout /\ t.remaining = EmailDebounceWait - sinceInput

(* C4: as stated. At most one timer is pending, it expires 500ms after the  *)
(* last input event, and a burst of input events causes exactly one         *)
(* validation of the email field, once 500ms have passed without input.     *)
(* Fails when the burst leaves the field empty: the callback runs and       *)
(* validates nothing.                                                       *)
C4_AsStated ==
    /\ C4_OneTimer
    /\ validations > 0 => sinceInput = EmailDebounceWait
    /\ timers # {} => validations = 0
    /\ (timers = {} /\ keystrokes > 0) => validations = 1

(* C4, amended: at most one timer is pending, it expires 500ms after the    *)
(* last input event, and a burst of input events causes exactly one run of  *)
(* the debounced callback, once 500ms have passed without input; that run   *)
(* validates the email field iff its value is not empty then.               *)
C4_DebouncedOnce ==
    /\ C4_OneTimer
    /\ runs > 0 => sinceInput = EmailDebounceWait
    /\ timers # {} => runs = 0
    /\ (timers = {} /\ keystrokes > 0) =>
          /\ runs = 1
          /\ validations = IF Len(value["email"]) > 0 THEN 1 ELSE 0

\* the callback has run once after a burst of two input events and marked
\* the malformed address
C4_Witness ==
    /\ keystrokes = 2
    /\ runs = 1
    /\ validations = 1
    /\ timers = {}
    /\ value["email"] = BadEmail
    /\ "invalid" \in classList["email"]

-----------------------------------------------------------------------------
\* the field's current value fails its check
C10_Fails(f) == f \in EmptyRequired \/ Malformed(f)

(* C10: in function.js, after every submit event each present field has     *)
(* class `invalid` iff its value fails its check, class `valid` iff its     *)
(* trimmed value is non-empty and passes, and neither class iff it is an    *)
(* optional field whose value is empty.  Fails: an optional field emptied   *)
(* after it was marked valid keeps the class `valid`.                       *)
C10_AsStated ==
    (form.variant = "function.js" /\ AfterSubmit) =>
        \A f \in form.present :
            /\ "invalid" \in classList[f] <=> C10_Fails(f)
            /\ "valid" \in classList[f] <=> (~IsBlank(value[f]) /\ ~C10_Fails(f))
            /\ classList[f] = {} <=> (f \in OptionalNames /\ IsBlank(value[f]))

-----------------------------------------------------------------------------
(* The validators' claims, under SpecValidators                            *)

Count(s, chars) == Cardinality({i \in 1..Len(s) : s[i] \in chars})
Whitespace == {" ", "\t", "\n", "\r"}

\* local@domain.tld: one @, no whitespace, text before the @, and after
\* it a dot with text on both sides
C5_Shape(s) ==
    /\ Count(s, {"@"}) = 1
    /\ Count(s, Whitespace) = 0
    /\ s[1] # "@"
    /\ \E j \in 1..Len(s) :
          /\ s[j] = "."
          /\ \E i \in 1..(j - 2) : s[i] = "@"
          /\ j < Len(s)

(* C5: isValidEmail accepts a@b.co, rejects a@b, a@@b.com and the empty     *)
(* string, and accepts exactly the strings local@domain.tld with one @, no  *)
(* whitespace, a non-empty local part and, after the @, a dot with          *)
(* non-empty text on both sides.                                            *)
C5_EmailValidator ==
    verdict.fn = "isValidEmail" =>
        /\ probe = GoodEmail => verdict.ret
        /\ probe \in {BadEmail, ExEmailTwoAts, <<>>} => ~verdict.ret
        /\ verdict.ret <=> (probe # <<>> /\ C5_Shape(probe))

C5_Witness ==
    /\ verdict.fn = "isValidEmail"
    /\ probe = GoodEmail
    /\ verdict.ret

-----------------------------------------------------------------------------
(* C6: isValidPhone accepts +1 (555) 123-4567, rejects 12345 and abc-defg,  *)
(* and rejects every string holding a character other than a digit,         *)
(* whitespace, - ( ) or +.                                                  *)
C6_PhoneValidator ==
    verdict.fn = "isValidPhone" =>
        /\ probe = ExPhoneGood => verdict.ret
        /\ probe \in {ShortPhone, ExPhoneLetters} => ~verdict.ret
        /\ Count(probe, Digits \cup Whitespace \cup {"-", "(", ")", "+"}) < Len(probe)
              => ~verdict.ret

C6_Witness ==
    /\ verdict.fn = "isValidPhone"
    /\ probe = ExPhoneGood
    /\ verdict.ret

(* C7: every string isValidPhone accepts holds at least 10 digits.  Fails:  *)
(* the length check counts every character left after spaces, dashes and   *)
(* parentheses are removed, + included.                                     *)
C7_AsStated ==
    (verdict.fn = "isValidPhone" /\ verdict.ret) => Count(probe, Digits) >= 10

-----------------------------------------------------------------------------
(* C8: whenever new URL(value) throws, isValidURL tries new URL('https://'  *)
(* + value) before it returns false, for every value.  Fails for the        *)
(* values that begin with "http".                                           *)
C8_AsStated ==
    (verdict.fn = "isValidURL" /\ newURL(probe).threw) =>
        verdict.tried = <<probe, httpsPrefix \o probe>>

(* C9: isValidURL accepts https://example.com directly and example.com      *)
(* through the https fallback, rejects `not a url`, and accepts a value     *)
(* that parses as an absolute URL only if its scheme is http or https,      *)
(* without any fallback (ftp://example.com and localhost:8080 are           *)
(* rejected).                                                               *)
C9_URLValidator ==
    verdict.fn = "isValidURL" =>
        /\ probe = ExUrlHttps => verdict.ret /\ verdict.tried = <<probe>>
        /\ probe = GoodUrl =>
              verdict.ret /\ verdict.tried = <<probe, httpsPrefix \o probe>>
        /\ probe = BadUrl => ~verdict.ret
        /\ probe \in {ExUrlFtp, ExUrlLocalhost} =>
              ~verdict.ret /\ verdict.tried = <<probe>>
        /\ ~newURL(probe).threw =>
              /\ verdict.tried = <<probe>>
              /\ verdict.ret <=> newURL(probe).protocol \in {httpColon, httpsColon}

C9_Witness ==
    /\ verdict.fn = "isValidURL"
    /\ probe = GoodUrl
    /\ verdict.ret
    /\ Len(verdict.tried) = 2

-----------------------------------------------------------------------------
\* the place of an input in document order
Position(f) == CHOOSE i \in 1..Len(FieldOrder) : FieldOrder[i] = f

(* C11: after a blocked submit, the submit handler has moved focus to a     *)
(* present field that is in the invalid state and that no invalid field     *)
(* precedes in document order (so such a field exists); after an allowed    *)
(* submit, the handler has moved focus nowhere.                             *)
C11_FocusFirstInvalid ==
    AfterSubmit =>
        IF Prevented
        THEN /\ focus \in form.present
             /\ InvalidState(focus)
             /\ \A g \in form.present :
                    InvalidState(g) => Position(focus) <= Position(g)
        ELSE focus = ""

\* a blocked submit that focused the second field while a later one is
\* invalid too
C11_Witness ==
    /\ Prevented
    /\ focus = "last_name"
    /\ ~InvalidState("first_name")
    /\ InvalidState("email")

-----------------------------------------------------------------------------
\* the loading state of the submit button
Loading(b) ==
    /\ b.loading
    /\ b.disabled
    /\ b.btnText = "none"
    /\ b.btnLoader = "inline-flex"

(* C12: in function.js, a submit that passes validation leaves the button   *)
(* in the loading state (class loading, disabled, .btn-text hidden,         *)
(* .btn-loader shown); a blocked submit leaves the button as it was; no     *)
(* step other than a passing submit changes the button, so it is disabled   *)
(* iff a submit has passed, and once loading it stays loading.              *)
C12_ButtonLoading ==
    [][ /\ (last'.submit = "allowed" /\ button' # <<>>) => Loading(button'[1])
        /\ last'.submit = "blocked" => button' = button
        /\ button' # button => (last'.submit = "allowed" /\ last' # last)
        /\ (button # <<>> /\ button[1].disabled) =>
               (button' # <<>> /\ Loading(button'[1])) ]_vars

\* a blocked submit after an earlier one had passed: the button is still
\* loading
C12_Witness ==
    /\ form.variant = "function.js"
    /\ Prevented
    /\ button # <<>>
    /\ Loading(button[1])

-----------------------------------------------------------------------------
\* the .error-message element of the input's parent shows a text
ShowsMessage(f) == MessageOf(f) # <<>> /\ MessageOf(f) # <<"">>

(* C13: in part_000, after a submit that was allowed no present field is    *)
(* styled invalid (red border with a non-empty error message).  Fails: the  *)
(* validation pass never calls markValid on phone, mobile or url, so an     *)
(* optional field marked by an earlier blur and emptied since stays red.    *)
C13_AsStated ==
    (form.variant = "part_000" /\ last.submit = "allowed") =>
        \A f \in form.present : ~(InvalidState(f) /\ ShowsMessage(f))

-----------------------------------------------------------------------------
\* this step is a run of the submit handler: the handlers of the other
\* events reset `last`, and the clock leaves it alone but moves the time
SubmitStep ==
    /\ last'.submit # "none"
    /\ timers' = timers
    /\ sinceInput' = sinceInput

\* part_000: the email input carries the required attribute and holds a
\* value that is not empty after trimming and fails the email check
C14_Malformed ==
    /\ form.variant = "part_000"
    /\ "email" \in form.present \cap form.required
    /\ trim(value["email"]) # <<>>
    /\ ~isValidEmail(value["email"])

EmailMessage == <<"Please enter a valid email address">>

(* C14: as stated. In part_000 a blur event on a required email field that  *)
(* holds a non-empty malformed value, and a submit event on its form, end   *)
(* with the field in the invalid state and the message 'Please enter a      *)
(* valid email address'.  Fails after a submit where the email input        *)
(* shares its parent with a field checked later that fails too.             *)
C14_AsStated ==
    [][ (C14_Malformed /\ (SubmitStep \/ BlurInline("email"))) =>
            (InvalidState("email") /\ MessageOf("email") = EmailMessage)' ]_vars

(* C14, amended: in part_000 a blur event on a required email field that    *)
(* holds a non-empty malformed value, and a submit event on its form, end   *)
(* with the field in the invalid state; the message is 'Please enter a      *)
(* valid email address' after the blur event, and after the submit event    *)
(* when the email input has a parent of its own.                            *)
C14_MalformedEmailInvalid ==
    [][ (C14_Malformed /\ (SubmitStep \/ BlurInline("email"))) =>
            /\ InvalidState("email")'
            /\ (BlurInline("email") \/ OwnErrorMessage("email")) =>
                   (MessageOf("email") = EmailMessage)' ]_vars

\* the required email field holds a malformed address and was marked with
\* the format message by a handler that did not block a submit: a blur
C14_Witness ==
    /\ C14_Malformed
    /\ last.submit = "none"
    /\ InvalidState("email")
    /\ MessageOf("email") = EmailMessage
    /\ value["first_name"] = Al

-----------------------------------------------------------------------------
\* the proviso of C15: every input has a parent of its own that holds one
\* .error-message element
C15_OwnMessages == form.layout = "grouped"

\* the check a blur event (or the debounced callback) makes of field f fails
BlurFails(f) ==
    \/ f \in form.required /\ IsBlank(value[f])
    \/ /\ ~IsBlank(value[f])
       /\ Malformed(f)
       /\ form.variant = "part_000" \/ f # "email" \/ TypeOf(f) = "email"

\* the handler of this step checks field f, and f fails the check
FailsInStep(f) ==
    \/ SubmitStep /\ C10_Fails(f)
    \/ /\ last'.submit = "none" /\ value' = value /\ timers' = timers
       /\ BlurFails(f)
       /\ Blur(f) \/ BlurInline(f)
    \/ /\ f = "email" /\ timers' # timers /\ value' = value
       /\ Len(value[f]) > 0 /\ BlurFails(f)
       /\ TimerFire

\* the message of the check field f fails with its current value
FailedMessage(f) ==
    IF IsBlank(value[f]) THEN LabelText(f) \o " is required"
    ELSE CASE f = "email" -> "Please enter a valid email address"
           [] f = "phone" -> "Please enter a valid phone number"
           [] f = "mobile" -> IF form.variant = "part_000"
                              THEN "Please enter a valid mobile number"
                              ELSE "Please enter a valid phone number"
           [] OTHER -> "Please enter a valid website URL"

\* the error message of field f is shown iff f is in the invalid state
C15_Inline(f) == ShowsMessage(f) <=> InvalidState(f)

(* C15: where every input has a parent of its own holding one               *)
(* .error-message element, in every reachable state of either variant a     *)
(* field's error message is non-empty iff the field is in the invalid       *)
(* state; a check the field fails leaves it invalid with the message of     *)
(* that check, and no other step puts a new text into the message.          *)
C15_MessageIffInvalid ==
    /\ C15_OwnMessages => \A f \in form.present : C15_Inline(f)
    /\ [][ C15_OwnMessages =>
             \A f \in form.present :
                 /\ C15_Inline(f)'
                 /\ IF FailsInStep(f)
                    THEN (InvalidState(f) /\ MessageOf(f) = <<FailedMessage(f)>>)'
                    ELSE ShowsMessage(f)' => MessageOf(f)' = MessageOf(f) ]_vars

\* a field that failed the required check earlier now shows the message of
\* the format check it failed since
C15_Witness ==
    /\ C15_OwnMessages
    /\ value["email"] = BadEmail
    /\ InvalidState("email")
    /\ MessageOf("email") = EmailMessage
    /\ value["phone"] = ShortPhone
    /\ MessageOf("phone") = <<"Please enter a valid phone number">>

-----------------------------------------------------------------------------
\* this step is a run of the debounced callback
CallbackStep == runs' = runs + 1

(* C16: when the debounce timer fires, the callback validates the email     *)
(* field against the value it holds then, whatever it held at the last      *)
(* input event: the field ends invalid iff that value fails its check and   *)
(* valid iff it passes; if that value has length 0 the callback changes no  *)
(* field's class or message.  The marking of the email field changes only   *)
(* in a run of the callback on a non-empty value, a blur or a submit.       *)
C16_FiresOnCurrentValue ==
    [][ /\ CallbackStep =>
              IF Len(value["email"]) = 0
              THEN classList' = classList /\ errorText' = errorText /\ style' = style
              ELSE /\ ("invalid" \in classList["email"])' <=> BlurFails("email")
                   /\ ("valid" \in classList["email"])' <=> ~BlurFails("email")
        /\ (form.variant = "function.js" /\ classList'["email"] # classList["email"]) =>
              \/ CallbackStep /\ Len(value["email"]) > 0
              \/ SubmitStep
              \/ Blur("email") ]_vars

\* the callback has run on a field a script had emptied after the last input
\* event: the invalid marking of an earlier run is still on the empty field
C16_Witness ==
    /\ runs = 1
    /\ timers = {}
    /\ typed = GoodEmail
    /\ value["email"] = <<>>
    /\ "invalid" \in classList["email"]
    /\ last.submit = "none"

-----------------------------------------------------------------------------
\* a present input without the required attribute whose trimmed value is
\* empty
C17_EmptyOptional(f) ==
    /\ f \in form.present \ form.required
    /\ f \in {"email", "phone", "mobile", "url"}
    /\ trim(value[f]) = <<>>

(* C17: in both variants, a blur event on a non-required email, phone,      *)
(* mobile or url field whose trimmed value is empty leaves the class, the   *)
(* style and the error message of every field as they were.                 *)
C17_EmptyBlurNoOp ==
    [][ \A f \in Fields :
          (C17_EmptyOptional(f) /\ (Blur(f) \/ BlurInline(f))) =>
              /\ classList' = classList
              /\ style' = style
              /\ errorText' = errorText ]_vars

\* an empty optional field with a blur listener still carries the invalid
\* marking and the message of an earlier blur, and no submit ran since
C17_Witness ==
    /\ \E f \in BlurFields \cup BlurFieldsInline :
          /\ C17_EmptyOptional(f)
          /\ InvalidState(f)
          /\ ShowsMessage(f)
    /\ last.submit = "none"
    /\ focus = ""

-----------------------------------------------------------------------------
\* the verdict of a validation pass: the decision and the fields it marked
Decision(r) == [blocked |-> ~r.isValid, marked |-> r.d.marked]

(* C18: for the same form and the same field values, the validation passes  *)
(* of function.js and of part_000 reach the same block/allow decision and   *)
(* mark the same fields invalid.  Fails for a value with surrounding        *)
(* whitespace: function.js validates the trimmed value, part_000 the value  *)
(* as typed.                                                                *)
C18_AsStated == Decision(validateForm(DOM)) = Decision(validateFormInline(DOM))

-----------------------------------------------------------------------------
\* #form-messages as showMessage and hideMessage leave it
BannerShown ==
    [text |-> "Please correct the errors below and try again.",
     className |-> "form-messages error", display |-> "block"]
BannerHidden == [text |-> "", className |-> "form-messages", display |-> "none"]

(* C19: in function.js with a #form-messages element, after every submit    *)
(* event the banner shows the error text, with class `form-messages error`  *)
(* and displayed, iff the submit was blocked, and is hidden and empty after  *)
(* an allowed submit; only a submit event changes the banner.               *)
C19_BannerIffBlocked ==
    [][ /\ (AfterSubmit /\ banner # <<>>)' =>
              /\ (Prevented <=> banner[1] = BannerShown)'
              /\ (~Prevented => banner[1] = BannerHidden)'
        /\ banner' # banner => SubmitStep ]_vars

\* an allowed submit has left the banner hidden and empty
C19_Witness ==
    /\ last.submit = "allowed"
    /\ banner = <<BannerHidden>>
    /\ value["company"] = Al

=============================================================================
